---- MODULE Spec2Model ----
(***************************************************************************)
(* Model of src/turing_machine.rs: the TuringMachine engine (new,          *)
(* load_cfg, step, update, is_halt, reset), its Instruction table and the  *)
(* Direction parser.                                                       *)
(*                                                                         *)
(* Strings are sequences of one-character strings (<<"A">>, <<"0","1">>),  *)
(* so that `chars().collect()` and `chars().next()` are real conversions.  *)
(* Vec indices are 0-based in the source and 1-based here: the cell under  *)
(* the head is tape[tape_cell + 1].                                        *)
(***************************************************************************)
EXTENDS Integers, Sequences, FiniteSets, TLC

\* ------------------------------------------------------------- bounds
\* step() calls allowed after one load_cfg / reset
MaxSteps == 3
\* largest rule table a load_cfg may leave behind
MaxRules == 3

\* Width of usize.  tape_cell is a usize; its arithmetic is modulo
\* 2^UsizeBits.  16 is the narrowest pointer width Rust targets; every
\* width gives the same behaviours (usize::MAX is far past any tape).
UsizeBits == 16
UsizeMax == (2 ^ UsizeBits) - 1

\* ------------------------------------------------------------- text
A == <<"A">>
B == <<"B">>
EmptyStr == <<>>
LEFT == <<"l", "e", "f", "t">>
RIGHT == <<"r", "i", "g", "h", "t">>
STAY == <<"s", "t", "a", "y">>
UP == <<"u", "p">>

\* ------------------------------------------------------------- Direction
\* Direction::str2dir: Ok(direction) or Err(InvalidData)
str2dir(strdir) ==
    IF strdir = LEFT THEN [ok |-> TRUE, dir |-> "Lhs"]
    ELSE IF strdir = RIGHT THEN [ok |-> TRUE, dir |-> "Rhs"]
    ELSE IF strdir = STAY THEN [ok |-> TRUE, dir |-> "Stay"]
    ELSE [ok |-> FALSE, dir |-> "InvalidData"]

\* ------------------------------------------------------------- Instruction
Instruction(cs, csym, ns, nsym, d) ==
    [current_state |-> cs, current_symbol |-> csym,
     new_state |-> ns, new_symbol |-> nsym, direction |-> d]

\* a mutant of is_matching: the symbol under the head is not compared
is_matching_state_only(ins, st, symbol) ==
    st = ins.current_state

\* Instruction::is_matching
is_matching(ins, st, symbol) ==
    st = ins.current_state /\ symbol = ins.current_symbol

\* ------------------------------------------------------------- TuringMachine
\* TuringMachine::new
new ==
    [state |-> EmptyStr, halt_state |-> EmptyStr, tape |-> <<>>,
     tape_cell |-> 0, instructions |-> <<>>]

\* a mutant of update: the head moves the wrong way round
update_mirrored(m, new_state, new_symbol, dir, checks) ==
    LET w == [m EXCEPT !.state = new_state,
                       !.tape[m.tape_cell + 1] = new_symbol]
    IN  IF dir = "Rhs"
        THEN IF m.tape_cell = 0
             THEN IF checks
                  THEN [m |-> w, outcome |-> "panic_overflow"]
                  ELSE [m |-> [w EXCEPT !.tape_cell = UsizeMax],
                        outcome |-> "returned"]
             ELSE [m |-> [w EXCEPT !.tape_cell = m.tape_cell - 1],
                   outcome |-> "returned"]
        ELSE IF dir = "Lhs"
        THEN [m |-> [w EXCEPT !.tape_cell = (m.tape_cell + 1) % (2 ^ UsizeBits)],
              outcome |-> "returned"]
        ELSE [m |-> w, outcome |-> "returned"]

\* a mutant of update: the head moves before the symbol is written
update_move_first(m, new_state, new_symbol, dir, checks) ==
    LET c == IF dir = "Lhs" THEN (m.tape_cell - 1) % (2 ^ UsizeBits)
             ELSE IF dir = "Rhs" THEN (m.tape_cell + 1) % (2 ^ UsizeBits)
             ELSE m.tape_cell
        w == [m EXCEPT !.state = new_state, !.tape_cell = c]
    IN  IF c < Len(m.tape)
        THEN [m |-> [w EXCEPT !.tape[c + 1] = new_symbol], outcome |-> "returned"]
        ELSE [m |-> w, outcome |-> "panic_index"]

\* TuringMachine::update.  The state and the symbol are written first; then
\* the head moves.  `tape_cell -= 1` at 0 and `tape_cell += 1` at usize::MAX
\* overflow: a build with overflow checks (checks = TRUE) panics there, with
\* the two writes already done; a build without them wraps.
update(m, new_state, new_symbol, dir, checks) ==
    LET w == [m EXCEPT !.state = new_state,
                       !.tape[m.tape_cell + 1] = new_symbol]
    IN  IF dir = "Lhs"
        THEN IF m.tape_cell = 0
             THEN IF checks
                  THEN [m |-> w, outcome |-> "panic_overflow"]
                  ELSE [m |-> [w EXCEPT !.tape_cell = (m.tape_cell - 1) % (2 ^ UsizeBits)],
                        outcome |-> "returned"]
             ELSE [m |-> [w EXCEPT !.tape_cell = m.tape_cell - 1],
                   outcome |-> "returned"]
        ELSE IF dir = "Rhs"
        THEN IF m.tape_cell = UsizeMax
             THEN IF checks
                  THEN [m |-> w, outcome |-> "panic_overflow"]
                  ELSE [m |-> [w EXCEPT !.tape_cell = (m.tape_cell + 1) % (2 ^ UsizeBits)],
                        outcome |-> "returned"]
             ELSE [m |-> [w EXCEPT !.tape_cell = m.tape_cell + 1],
                   outcome |-> "returned"]
        ELSE [m |-> w, outcome |-> "returned"]

\* The loop of step(): for i in 0..instructions.len().  Each iteration reads
\* tape[tape_cell] (a panic when tape_cell is no index of the tape) and tests
\* instructions[i]; the first match ends the scan.
RECURSIVE scan(_, _)
scan(m, i) ==
    IF i > Len(m.instructions) THEN [kind |-> "none", i |-> 0]
    ELSE IF m.tape_cell >= Len(m.tape) THEN [kind |-> "panic_index", i |-> i]
    ELSE IF is_matching(m.instructions[i], m.state, m.tape[m.tape_cell + 1])
         THEN [kind |-> "match", i |-> i]
         ELSE scan(m, i + 1)

\* the same loop run from the last rule down (a mutant's scan order)
RECURSIVE scan_back(_, _)
scan_back(m, i) ==
    IF i < 1 THEN [kind |-> "none", i |-> 0]
    ELSE IF m.tape_cell >= Len(m.tape) THEN [kind |-> "panic_index", i |-> i]
    ELSE IF is_matching(m.instructions[i], m.state, m.tape[m.tape_cell + 1])
         THEN [kind |-> "match", i |-> i]
         ELSE scan_back(m, i - 1)

\* a mutant of step_after: when no rule matched, the head steps over the cell
step_after_skips(m, r, checks) ==
    IF r.kind = "match"
    THEN LET ins == m.instructions[r.i]
             u == update(m, ins.new_state, ins.new_symbol, ins.direction, checks)
         IN  [m |-> u.m, outcome |-> u.outcome, applied |-> r.i]
    ELSE IF r.kind = "panic_index"
    THEN [m |-> m, outcome |-> "panic_index", applied |-> 0]
    ELSE [m |-> [m EXCEPT !.tape_cell = (m.tape_cell + 1) % (2 ^ UsizeBits)],
          outcome |-> "returned", applied |-> 0]

\* what step() does once the scan has ended with r
step_after(m, r, checks) ==
    IF r.kind = "match"
    THEN LET ins == m.instructions[r.i]
             u == update(m, ins.new_state, ins.new_symbol, ins.direction, checks)
         IN  [m |-> u.m, outcome |-> u.outcome, applied |-> r.i]
    ELSE IF r.kind = "panic_index"
    THEN [m |-> m, outcome |-> "panic_index", applied |-> 0]
    ELSE [m |-> m, outcome |-> "returned", applied |-> 0]

\* a mutant of step: the last matching rule wins
step_last_match(m, checks) ==
    step_after(m, scan_back(m, Len(m.instructions)), checks)

\* a mutant of step: when the scan finds nothing the last rule is applied
step_fall_through(m, checks) ==
    LET r == scan(m, 1)
    IN  IF r.kind = "none" /\ m.instructions # <<>> /\ m.tape_cell < Len(m.tape)
        THEN step_after(m, [kind |-> "match", i |-> Len(m.instructions)], checks)
        ELSE step_after(m, r, checks)

\* a mutant of step: a halted machine is not stepped
step_stops_when_halted(m, checks) ==
    IF m.state = m.halt_state
    THEN [m |-> m, outcome |-> "returned", applied |-> 0]
    ELSE step_after(m, scan(m, 1), checks)

\* the loop of step() without its `break`: every rule from i on that matches
\* the machine as the rules before it left it is applied
RECURSIVE scan_on(_, _, _, _)
scan_on(m, i, checks, first) ==
    IF i > Len(m.instructions)
    THEN [m |-> m, outcome |-> "returned", applied |-> first]
    ELSE IF m.tape_cell >= Len(m.tape)
    THEN [m |-> m, outcome |-> "panic_index", applied |-> first]
    ELSE IF is_matching(m.instructions[i], m.state, m.tape[m.tape_cell + 1])
    THEN LET ins == m.instructions[i]
             u == update(m, ins.new_state, ins.new_symbol, ins.direction, checks)
         IN  IF u.outcome # "returned"
             THEN [m |-> u.m, outcome |-> u.outcome,
                   applied |-> IF first = 0 THEN i ELSE first]
             ELSE scan_on(u.m, i + 1, checks, IF first = 0 THEN i ELSE first)
    ELSE scan_on(m, i + 1, checks, first)

\* a mutant of step: the `break` is missing
step_no_break(m, checks) ==
    scan_on(m, 1, checks, 0)

\* a mutant of step: the cell under the head is read once, ahead of the loop
step_reads_first(m, checks) ==
    IF m.tape_cell >= Len(m.tape)
    THEN [m |-> m, outcome |-> "panic_index", applied |-> 0]
    ELSE step_after(m, scan(m, 1), checks)

\* TuringMachine::step.  It returns (): outcome is "returned" whether a rule
\* was applied or not, or names the panic that ended the call.
step(m, checks) ==
    step_after(m, scan(m, 1), checks)

\* a mutant of is_halt: only the lengths of the identifiers are compared
is_halt_by_length(m) ==
    Len(m.state) = Len(m.halt_state)

\* TuringMachine::is_halt
is_halt(m) ==
    m.state = m.halt_state

\* a mutant of reset: tape_cell is not put back to 0
reset_keeps_cell(m) ==
    [m EXCEPT !.state = EmptyStr, !.halt_state = EmptyStr,
              !.tape = <<>>, !.instructions = <<>>]

\* a mutant of reset: halt_state is not cleared
reset_keeps_halt(m) ==
    [m EXCEPT !.state = EmptyStr, !.tape = <<>>, !.tape_cell = 0,
              !.instructions = <<>>]

\* TuringMachine::reset
reset(m) ==
    [m EXCEPT !.state = EmptyStr, !.halt_state = EmptyStr,
              !.tape = <<>>, !.tape_cell = 0, !.instructions = <<>>]

\* ------------------------------------------------------------- load_cfg
\* A configuration file is a sequence of lines; a line is its tokens (what
\* split_whitespace yields) and whether white space precedes the first one.
Line(toks) == [indent |-> FALSE, toks |-> toks]
Indented(toks) == [indent |-> TRUE, toks |-> toks]
RuleLine(cs, csym, ns, nsym, dirtok) == Line(<<cs, <<csym>>, ns, <<nsym>>, dirtok>>)

\* line.starts_with('#')
starts_with_hash(line) ==
    /\ ~line.indent
    /\ line.toks # <<>>
    /\ Head(line.toks[1]) = "#"

\* line.trim().is_empty()
trim_is_empty(line) == line.toks = <<>>

\* One pass of the `for line in reader.lines()` loop and the passes after it.
RECURSIVE load_lines(_, _, _)
load_lines(m, lines, k) ==
    IF k > Len(lines) THEN [m |-> m, outcome |-> "ok"]
    ELSE LET line == lines[k]
             substrings == line.toks
             count == Len(substrings)
         IN  IF starts_with_hash(line) \/ trim_is_empty(line)
             THEN load_lines(m, lines, k + 1)
             ELSE IF count = 2
             THEN load_lines([m EXCEPT !.state = substrings[1],
                                       !.tape = substrings[2]], lines, k + 1)
             ELSE IF count = 1
             THEN load_lines([m EXCEPT !.halt_state = substrings[1]], lines, k + 1)
             ELSE IF count = 5
             THEN LET d == str2dir(substrings[5])
                  IN  IF ~d.ok
                      THEN [m |-> m, outcome |-> "panic_unwrap"]
                      ELSE load_lines(
                             [m EXCEPT !.instructions =
                                 Append(@, Instruction(substrings[1],
                                                       Head(substrings[2]),
                                                       substrings[3],
                                                       Head(substrings[4]),
                                                       d.dir))],
                             lines, k + 1)
             ELSE [m |-> m, outcome |-> "err_invalid_data"]

\* a mutant of load_cfg: the machine is reset before the file is read
load_cfg_resets(m, file) ==
    IF ~file.exists THEN [m |-> m, outcome |-> "panic_unwrap"]
    ELSE load_lines(reset(m), file.lines, 1)

\* TuringMachine::load_cfg: File::open(path).unwrap(), then the lines in order
load_cfg(m, file) ==
    IF ~file.exists THEN [m |-> m, outcome |-> "panic_unwrap"]
    ELSE load_lines(m, file.lines, 1)

\* ------------------------------------------------------------- the files
File(name, lines) == [name |-> name, exists |-> TRUE, lines |-> lines]

\* rules (A,'0')->(A,'1',right), (A,'1')->(B,'0',stay); start A on "01"; halt B
CfgCount ==
    File("count", << Line(<< <<"#">>, <<"c">> >>),
                     Line(<<A, <<"0", "1">> >>),
                     Line(<<B>>),
                     RuleLine(A, "0", A, "1", RIGHT),
                     RuleLine(A, "1", B, "0", STAY) >>)

\* two rules for (A,'0') with different consequences
CfgTwice ==
    File("twice", << Line(<<A, <<"0", "1">> >>),
                     Line(<<B>>),
                     RuleLine(A, "0", B, "1", STAY),
                     RuleLine(A, "0", A, "0", RIGHT) >>)

\* right over the '0', then left on every '1': the head comes back to 0
CfgZigzag ==
    File("zigzag", << Line(<<A, <<"0", "1">> >>),
                      Line(<<B>>),
                      Line(<<>>),
                      RuleLine(A, "0", A, "1", RIGHT),
                      RuleLine(A, "1", A, "1", LEFT) >>)

\* right on every '1': the head walks off the end of "11"
CfgWalk ==
    File("walk", << Line(<<B>>),
                    Line(<<A, <<"1", "1">> >>),
                    RuleLine(A, "1", A, "0", RIGHT) >>)

\* no rule for (A,'1')
CfgStuck ==
    File("stuck", << Line(<<A, <<"1">> >>),
                     Line(<<B>>),
                     RuleLine(A, "0", B, "0", STAY) >>)

\* a rule and nothing else
CfgExtra ==
    File("extra", << RuleLine(A, "1", B, "1", LEFT) >>)

\* a line of three tokens after a rule
CfgShort ==
    File("short", << RuleLine(B, "0", A, "1", STAY),
                     Line(<<A, <<"0">>, B>>),
                     Line(<<A>>) >>)

\* a movement token that is none of left, right, stay; the '#' of its first
\* line follows white space, so the line is no comment but a halt-state line
CfgUp ==
    File("up", << Indented(<< <<"#">> >>),
                  Line(<<B, <<"0">> >>),
                  RuleLine(B, "0", A, "1", UP),
                  Line(<<A>>) >>)

\* a path that names no file
CfgMissing == [name |-> "missing", exists |-> FALSE, lines |-> <<>>]

Files ==
    {CfgCount, CfgTwice, CfgZigzag, CfgWalk, CfgStuck, CfgExtra, CfgShort,
     CfgUp, CfgMissing}

\* ------------------------------------------------------------- the driver
VARIABLES
    tm,               \* the TuringMachine
    overflow_checks,  \* whether the build panics on integer overflow
    lastOp,           \* the last method called on tm
    outcome,          \* how that call ended
    halt_ret,         \* what the last is_halt() returned
    pre,              \* tm before the last load_cfg or step
    applied,          \* the rule the last step() applied (1-based), or 0
    cfg,              \* the file of the last load_cfg, "none" before it
    clean,            \* the last load_cfg found tm as new() leaves it
    nsteps,           \* step() calls since the last load_cfg or reset
    was_reset,        \* reset() has been called
    fresh,            \* a TuringMachine built by new() at the last reset and
                      \* given the same calls since
    valid_start,      \* the last load_cfg returned Ok with the head on the tape
    stuck,            \* the first step() since the last load_cfg or reset that
                      \* returned without applying a rule: its number (at, 0
                      \* when there was none) and the machine it found (m)
    seen              \* how the steps so far ended whose rule took the head off
                      \* the tape, and those that found no rule for the cell
                      \* under the head in a state other than halt_state

vars ==
    <<tm, overflow_checks, lastOp, outcome, halt_ret, pre, applied, cfg,
      clean, nsteps, was_reset, fresh, valid_start, stuck, seen>>

Panics == {"panic_index", "panic_overflow", "panic_unwrap"}

\* a panic ends the program
Running == outcome \notin Panics

Init ==
    /\ tm = new
    /\ overflow_checks \in BOOLEAN
    /\ lastOp = "new"
    /\ outcome = "returned"
    /\ halt_ret = FALSE
    /\ pre = new
    /\ applied = 0
    /\ cfg = "none"
    /\ clean = FALSE
    /\ nsteps = 0
    /\ was_reset = FALSE
    /\ fresh = new
    /\ valid_start = FALSE
    /\ stuck = [at |-> 0, m |-> new]
    /\ seen = [off_tape |-> {}, no_rule |-> {}]

\* the first rule of m matching what is under the head, 0 when there is none
\* (or no cell under the head)
FirstMatching(m) ==
    IF m.tape_cell >= Len(m.tape) THEN 0
    ELSE LET S == {i \in 1..Len(m.instructions) :
                     /\ m.instructions[i].current_state = m.state
                     /\ m.instructions[i].current_symbol = m.tape[m.tape_cell + 1]}
         IN  IF S = {} THEN 0 ELSE CHOOSE i \in S : \A j \in S : i <= j

\* the rule's movement takes the head of m off the tape
LeavesTape(m, ins) ==
    \/ ins.direction = "Lhs" /\ m.tape_cell = 0
    \/ ins.direction = "Rhs" /\ m.tape_cell + 1 >= Len(m.tape)

Load(file) ==
    /\ Running
    /\ LET r == load_cfg(tm, file)
       IN  /\ Len(r.m.instructions) <= MaxRules
           /\ tm' = r.m
           /\ outcome' = r.outcome
           /\ valid_start' = (r.outcome = "ok" /\ r.m.tape_cell < Len(r.m.tape))
    /\ fresh' = load_cfg(fresh, file).m
    /\ lastOp' = "load_cfg"
    /\ pre' = tm
    /\ applied' = 0
    /\ cfg' = file.name
    /\ clean' = (tm = new)
    /\ nsteps' = 0
    /\ stuck' = [at |-> 0, m |-> new]
    /\ UNCHANGED <<overflow_checks, halt_ret, was_reset, seen>>

Step ==
    /\ Running
    /\ nsteps < MaxSteps
    /\ LET r == step(tm, overflow_checks)
           k == FirstMatching(tm)
       IN  /\ tm' = r.m
           /\ outcome' = r.outcome
           /\ applied' = r.applied
           /\ stuck' =
                IF stuck.at = 0 /\ r.applied = 0 /\ r.outcome = "returned"
                THEN [at |-> nsteps + 1, m |-> tm]
                ELSE stuck
           /\ seen' =
                IF k # 0
                THEN IF LeavesTape(tm, tm.instructions[k])
                     THEN [seen EXCEPT !.off_tape = @ \cup {r.outcome}]
                     ELSE seen
                ELSE IF tm.tape_cell < Len(tm.tape) /\ tm.state # tm.halt_state
                     THEN [seen EXCEPT !.no_rule = @ \cup {r.outcome}]
                     ELSE seen
    /\ fresh' = step(fresh, overflow_checks).m
    /\ lastOp' = "step"
    /\ pre' = tm
    /\ nsteps' = nsteps + 1
    /\ UNCHANGED <<overflow_checks, halt_ret, cfg, clean, was_reset, valid_start>>

IsHalt ==
    /\ Running
    /\ halt_ret' = is_halt(tm)
    /\ lastOp' = "is_halt"
    /\ outcome' = "returned"
    /\ UNCHANGED <<tm, overflow_checks, pre, applied, cfg, clean, nsteps,
                   was_reset, fresh, valid_start, stuck, seen>>

Reset ==
    /\ Running
    /\ tm' = reset(tm)
    /\ fresh' = new
    /\ was_reset' = TRUE
    /\ lastOp' = "reset"
    /\ outcome' = "returned"
    /\ pre' = tm
    /\ applied' = 0
    /\ cfg' = "none"
    /\ clean' = FALSE
    /\ nsteps' = 0
    /\ valid_start' = FALSE
    /\ stuck' = [at |-> 0, m |-> new]
    /\ UNCHANGED <<overflow_checks, halt_ret, seen>>

Next ==
    \/ \E file \in Files : Load(file)
    \/ Step
    \/ IsHalt
    \/ Reset

Spec == Init /\ [][Next]_vars

\* ------------------------------------------------------------- properties
\* the rule step() selects in m: the first matching one
Selected(m) == m.instructions[FirstMatching(m)]

\* the rules of m matching what is under the head
Matching(m) ==
    {i \in 1..Len(m.instructions) :
        /\ m.tape_cell < Len(m.tape)
        /\ m.instructions[i].current_state = m.state
        /\ m.instructions[i].current_symbol = m.tape[m.tape_cell + 1]}

\* the last call was a step() on a head within the tape that some rule matched
SteppedOnMatch ==
    /\ lastOp = "step"
    /\ pre.tape_cell < Len(pre.tape)
    /\ FirstMatching(pre) # 0

C2_FirstMatchWins ==
    (lastOp = "step" /\ Cardinality(Matching(pre)) >= 2) =>
        LET S == Matching(pre)
            first == CHOOSE i \in S : \A j \in S : i <= j
            r == pre.instructions[first]
        IN  /\ applied = first
            /\ tm.state = r.new_state
            /\ tm.tape = [pre.tape EXCEPT ![pre.tape_cell + 1] = r.new_symbol]
            /\ tm.instructions = pre.instructions
            /\ r.direction = "Stay" => tm.tape_cell = pre.tape_cell
            /\ r.direction = "Rhs" => tm.tape_cell = pre.tape_cell + 1
            /\ (r.direction = "Lhs" /\ pre.tape_cell > 0) =>
                  tm.tape_cell = pre.tape_cell - 1

\* a step() chose among two matching rules that write different states
C2_Witness ==
    /\ lastOp = "step"
    /\ \E i, j \in Matching(pre) :
          /\ i < j
          /\ pre.instructions[i].new_state # pre.instructions[j].new_state
          /\ tm.state = pre.instructions[i].new_state

\* C3 as stated: a step() whose matched rule moves left at head 0 reports an
\* error and leaves tape, current_state and head_position as they were.
C3_LeftAtZeroAllOrNothing ==
    (SteppedOnMatch /\ Selected(pre).direction = "Lhs" /\ pre.tape_cell = 0) =>
        /\ outcome # "returned"
        /\ tm.tape = pre.tape
        /\ tm.state = pre.state
        /\ tm.tape_cell = pre.tape_cell

\* C4 as stated: from a load that left the head on the tape, every step()
\* that reported no error leaves 0 <= head_position < len(tape); a move right
\* on the last cell reports an error on that step and never leaves the head
\* equal to len(tape).
C4_HeadInRange ==
    (valid_start /\ lastOp = "step" /\ outcome = "returned") =>
        tm.tape_cell < Len(tm.tape)

\* C5 as stated: a step() in a non-halting state with no matching rule ends
\* otherwise than a step() that applied a rule (which returns ()).
C5_NoMatchingRuleSignalled ==
    (/\ lastOp = "step"
     /\ pre.tape_cell < Len(pre.tape)
     /\ FirstMatching(pre) = 0
     /\ pre.state # pre.halt_state) =>
        outcome # "returned"

\* C6: a step() that finds no rule matching the (state, symbol) under the
\* head leaves current_state, halting_state, the tape (cells and length),
\* head_position and the rule table unchanged.
C6_NoMatchFrame ==
    (lastOp = "step" /\ Matching(pre) = {}) =>
        /\ tm.state = pre.state
        /\ tm.halt_state = pre.halt_state
        /\ tm.tape = pre.tape
        /\ tm.tape_cell = pre.tape_cell
        /\ tm.instructions = pre.instructions

\* a step() on a loaded machine, head on the tape, found no rule to apply
C6_Witness ==
    /\ lastOp = "step"
    /\ Matching(pre) = {}
    /\ pre.instructions # <<>>
    /\ pre.tape_cell < Len(pre.tape)
    /\ pre.state # pre.halt_state
    /\ outcome = "returned"

\* C7: is_halt() returns true exactly when current_state = halting_state,
\* changes no field of the machine, and a call right after a call that
\* returned true returns true as well.
C7_IsHaltPure ==
    [][lastOp' = "is_halt" =>
          /\ halt_ret' = (tm.state = tm.halt_state)
          /\ tm' = tm
          /\ (lastOp = "is_halt" /\ halt_ret) => halt_ret']_vars

\* is_halt() has returned true on a machine that ran into its halting state
C7_Witness ==
    /\ lastOp = "is_halt"
    /\ halt_ret
    /\ tm.state = tm.halt_state
    /\ tm.state # EmptyStr
    /\ nsteps > 0

\* C8: reset() leaves the engine as new() does, and from then on the engine
\* is, after every load_cfg and step, equal to an engine built by new() at
\* that moment and given the same calls.
C8_ResetAsNew ==
    /\ lastOp = "reset" => tm = new
    /\ was_reset => tm = fresh

\* a rule has been applied, away from cell 0, in a run loaded after a reset()
C8_Witness ==
    /\ was_reset
    /\ lastOp = "step"
    /\ applied # 0
    /\ tm.tape_cell > 0
    /\ tm = fresh

\* C9: the run of CfgCount loaded into a new engine: "11", A, head 1, not
\* halted after the first step(); "10", B, head 1, halted after the second.
C9_EndToEnd ==
    (cfg = "count" /\ clean) =>
        /\ nsteps = 0 =>
              /\ tm.tape = <<"0", "1">> /\ tm.state = A /\ tm.halt_state = B
              /\ tm.tape_cell = 0
              /\ tm.instructions =
                    << Instruction(A, "0", A, "1", "Rhs"),
                       Instruction(A, "1", B, "0", "Stay") >>
        /\ nsteps = 1 =>
              /\ tm.tape = <<"1", "1">> /\ tm.state = A /\ tm.tape_cell = 1
              /\ tm.state # tm.halt_state
              /\ lastOp = "is_halt" => ~halt_ret
        /\ nsteps = 2 =>
              /\ tm.tape = <<"1", "0">> /\ tm.state = B /\ tm.tape_cell = 1
              /\ tm.state = tm.halt_state
              /\ lastOp = "is_halt" => halt_ret

\* the second step() of that run is done and is_halt() has answered
C9_Witness ==
    /\ cfg = "count" /\ clean
    /\ nsteps = 2
    /\ lastOp = "is_halt"
    /\ halt_ret

\* C10 as stated: no step() whose matched rule takes the head off the tape
\* ends the way some step() with no matching rule ends.
C10_OffTapeDistinctFromNoRule ==
    seen.off_tape \cap seen.no_rule = {}

\* ------------------------------------------------------------- the loader's records
\* the file a load_cfg was given
FileNamed(name) == CHOOSE f \in Files : f.name = name

\* a line that is neither a comment nor blank
IsRecord(line) == ~starts_with_hash(line) /\ ~trim_is_empty(line)

\* a record of five tokens
IsRuleRecord(line) == IsRecord(line) /\ Len(line.toks) = 5

\* a record of no recognised shape, or a rule whose movement is no known token
Malformed(line) ==
    /\ IsRecord(line)
    /\ \/ Len(line.toks) \notin {1, 2, 5}
       \/ Len(line.toks) = 5 /\ line.toks[5] \notin {LEFT, RIGHT, STAY}

\* the first malformed record of the file, 0 when it has none
FirstMalformed(file) ==
    LET S == {k \in 1..Len(file.lines) : Malformed(file.lines[k])}
    IN  IF S = {} THEN 0 ELSE CHOOSE k \in S : \A j \in S : k <= j

\* the lines load_cfg gets through: those ahead of the first malformed record
Accepted(file) ==
    IF ~file.exists THEN <<>>
    ELSE IF FirstMalformed(file) = 0 THEN file.lines
    ELSE SubSeq(file.lines, 1, FirstMalformed(file) - 1)

\* the rule records among lines[k..], in order
RECURSIVE RuleRecords(_, _)
RuleRecords(lines, k) ==
    IF k > Len(lines) THEN <<>>
    ELSE IF IsRuleRecord(lines[k]) THEN <<lines[k]>> \o RuleRecords(lines, k + 1)
    ELSE RuleRecords(lines, k + 1)

\* C11 as stated: a load_cfg of a file with a malformed record (a token count
\* other than 1, 2, 5, or a movement token other than left, right, stay)
\* returns the configuration-format error, and the record adds no rule: the
\* table holds only the rules of the lines ahead of it.
C11_MalformedRejected ==
    (/\ lastOp = "load_cfg"
     /\ FileNamed(cfg).exists
     /\ FirstMalformed(FileNamed(cfg)) # 0) =>
        /\ outcome = "err_invalid_data"
        /\ Len(tm.instructions) =
              Len(pre.instructions)
              + Len(RuleRecords(Accepted(FileNamed(cfg)), 1))

\* C12: the frame of step().  Whatever a step() does, halt_state, the rule
\* table (contents and order) and the length of the tape are as before, and
\* so is every tape cell other than the one under the head before the call.
C12_StepFrame ==
    lastOp = "step" =>
        /\ tm.halt_state = pre.halt_state
        /\ tm.instructions = pre.instructions
        /\ Len(tm.tape) = Len(pre.tape)
        /\ \A c \in 1..Len(pre.tape) :
              c # pre.tape_cell + 1 => tm.tape[c] = pre.tape[c]

\* a step() has changed the cell under the head and moved the head, on a
\* tape of several cells
C12_Witness ==
    /\ lastOp = "step"
    /\ applied # 0
    /\ Len(pre.tape) >= 2
    /\ tm.tape[pre.tape_cell + 1] # pre.tape[pre.tape_cell + 1]
    /\ tm.tape_cell # pre.tape_cell

\* C13 as stated: a step() on a halted machine (current_state = halting_state)
\* leaves it halted, whatever the rule table.
C13_HaltedTerminal_AsStated ==
    (lastOp = "step" /\ pre.state = pre.halt_state) =>
        tm.state = tm.halt_state

\* C13 amended: a step() on a halted machine leaves it halted exactly when no
\* rule matches (halting state, symbol under the head) or the first matching
\* rule's new_state is the halting state; a matching rule with another
\* new_state is applied and the machine is no longer halted.
C13_HaltedTerminal ==
    (lastOp = "step" /\ pre.state = pre.halt_state) =>
        (tm.state = tm.halt_state
            <=> \/ Matching(pre) = {}
                \/ Selected(pre).new_state = pre.halt_state)

\* a machine that ran into its halting state has been stepped again and a
\* rule for the halting state has taken it out of it
C13_Witness ==
    /\ lastOp = "step"
    /\ pre.state = pre.halt_state
    /\ pre.state # EmptyStr
    /\ Matching(pre) # {}
    /\ tm.state # tm.halt_state

\* C14: STUCK is terminal.  Once a step() has returned without finding a
\* matching rule, then until the next load_cfg or reset every later step()
\* finds none either, and current_state, the tape and head_position are what
\* they were at that first stuck step.
C14_StuckTerminal ==
    stuck.at # 0 =>
        /\ tm.state = stuck.m.state
        /\ tm.tape = stuck.m.tape
        /\ tm.tape_cell = stuck.m.tape_cell
        /\ lastOp = "step" =>
              /\ applied = 0
              /\ Matching(pre) = {}
              /\ outcome = "returned"

\* a loaded machine, not halted, head on the tape, has been stepped again
\* after the step() that found it stuck
C14_Witness ==
    /\ stuck.at # 0
    /\ nsteps > stuck.at
    /\ lastOp = "step"
    /\ tm.instructions # <<>>
    /\ tm.tape_cell < Len(tm.tape)
    /\ tm.state # tm.halt_state

\* C15: a step() applies at most one transition.  The machine after a step()
\* that applied rule number `applied` is the machine before it with that one
\* rule's state, symbol and movement and nothing else, also when a later rule
\* of the table matches the new (state, symbol under the new head).
C15_OneTransition ==
    lastOp = "step" =>
        IF applied = 0 THEN tm = pre
        ELSE LET r == pre.instructions[applied]
                 h == pre.tape_cell
             IN  /\ tm.state = r.new_state
                 /\ tm.tape = [pre.tape EXCEPT ![h + 1] = r.new_symbol]
                 /\ tm.tape_cell \in
                       IF r.direction = "Stay" THEN {h}
                       ELSE IF r.direction = "Rhs" THEN {h + 1}
                       ELSE IF h > 0 THEN {h - 1}
                       ELSE {0, UsizeMax}

\* a step() applied a rule, and a later rule of the table matches the state
\* and the cell under the head that it left
C15_Witness ==
    /\ lastOp = "step"
    /\ applied # 0
    /\ outcome = "returned"
    /\ \E j \in Matching(tm) : j > applied

\* the last record of `count` tokens among lines, 0 when there is none
LastRecord(lines, count) ==
    LET S == {k \in 1..Len(lines) :
                 IsRecord(lines[k]) /\ Len(lines[k].toks) = count}
    IN  IF S = {} THEN 0 ELSE CHOOSE k \in S : \A j \in S : j <= k

\* C16: load_cfg appends to the rule table and leaves head_position alone.
\* After a load_cfg the head is where it was, the rules held before are still
\* the first rules of the table, in their order, followed by the rules of the
\* file in file order; current_state and tape are those of the file's last
\* two-token record and halt_state that of its last one-token record (kept
\* as they were when the file has no such record).
C16_LoadAppends ==
    lastOp = "load_cfg" =>
        LET lines == Accepted(FileNamed(cfg))
            rules == RuleRecords(lines, 1)
            n == Len(pre.instructions)
            init == LastRecord(lines, 2)
            halt == LastRecord(lines, 1)
        IN  /\ tm.tape_cell = pre.tape_cell
            /\ Len(tm.instructions) = n + Len(rules)
            /\ \A i \in 1..n : tm.instructions[i] = pre.instructions[i]
            /\ \A k \in 1..Len(rules) :
                  tm.instructions[n + k] =
                      Instruction(rules[k].toks[1], Head(rules[k].toks[2]),
                                  rules[k].toks[3], Head(rules[k].toks[4]),
                                  str2dir(rules[k].toks[5]).dir)
            /\ tm.state = IF init = 0 THEN pre.state ELSE lines[init].toks[1]
            /\ tm.tape = IF init = 0 THEN pre.tape ELSE lines[init].toks[2]
            /\ tm.halt_state = IF halt = 0 THEN pre.halt_state ELSE lines[halt].toks[1]

\* a second file was loaded, with no reset, into a machine that held rules and
\* whose head a run had moved: rules were added and the tape replaced
C16_Witness ==
    /\ lastOp = "load_cfg"
    /\ outcome = "ok"
    /\ pre.instructions # <<>>
    /\ pre.tape_cell > 0
    /\ Len(tm.instructions) > Len(pre.instructions)
    /\ tm.tape # pre.tape
    /\ tm.tape_cell = pre.tape_cell

\* C17: an engine that new() or reset() has just left, with no load_cfg since,
\* has the empty identifier as current_state and as halt_state, and is_halt()
\* on it returns true; is_halt() returns false only after a load_cfg, on a
\* machine whose two identifiers differ.
C17_EmptyIsHalted ==
    /\ cfg = "none" =>
          /\ tm.state = EmptyStr
          /\ tm.halt_state = EmptyStr
          /\ lastOp = "is_halt" => halt_ret
    /\ (lastOp = "is_halt" /\ ~halt_ret) =>
          /\ cfg # "none"
          /\ tm.state # tm.halt_state

\* is_halt() has answered true on an engine that was reset and not loaded since
C17_Witness ==
    /\ was_reset
    /\ cfg = "none"
    /\ lastOp = "is_halt"
    /\ halt_ret
    /\ tm = new

\* C18: a step() on an engine whose rule table is empty never reads the tape:
\* it returns without a panic, also when the tape is empty (no cell under the
\* head), and leaves every field as it was.
C18_EmptyTableStep ==
    (lastOp = "step" /\ pre.instructions = <<>>) =>
        /\ outcome = "returned"
        /\ applied = 0
        /\ tm = pre

\* a step() was made on an engine with no rule and an empty tape
C18_Witness ==
    /\ lastOp = "step"
    /\ pre.instructions = <<>>
    /\ pre.tape = <<>>
    /\ pre.tape_cell >= Len(pre.tape)
    /\ outcome = "returned"

====
